---- MODULE Spec2Model ----
(***************************************************************************)
(* Model of the oauth-secret-manager-service: the authentication gate      *)
(* (rest.Authenticate), the token verifier (rest.JWTParser), the two token *)
(* handlers (rest.SaveTokenHandler, rest.RetrieveTokenHandler), the token  *)
(* manager (token.ApiSaver, token.ApiRetriever) and the secret store       *)
(* adapter (package secret), run against a model of the remote store.      *)
(***************************************************************************)
EXTENDS FiniteSets, Integers, Sequences, TLC

VARIABLES parser, store, req, saved, boot, aes

vars == <<parser, store, req, saved, boot, aes>>

(***************************************************************************)
(* HTTP status codes used by the handlers.                                 *)
(***************************************************************************)
StatusOK == 200
StatusBadRequest == 400
StatusUnauthorized == 401
StatusInternalServerError == 500
NoStatus == 0

(***************************************************************************)
(* Request slots served by the router, user identifiers and token fields.  *)
(***************************************************************************)
Reqs == {"r1"}
Users == {"u1", "u2"}
AccessTokens == {"a1", "a2"}
RefreshTokens == {"r1"}

(***************************************************************************)
(* Typed JSON values of the "sub" claim and of the context key "user_id".  *)
(***************************************************************************)
Absent == [t |-> "absent", v |-> ""]
StrVal(s) == [t |-> "string", v |-> s]
NumVal(s) == [t |-> "number", v |-> s]
SubValues == {Absent, StrVal(""), NumVal("42")} \cup {StrVal(u) : u \in Users}

(***************************************************************************)
(* time.Time values and their textual forms.  A time is an instant plus    *)
(* the zone offset it was parsed with.  ParseRFC3339 is the decoding gin   *)
(* and encoding/json apply to the "expiry" field, FormatRFC3339 is         *)
(* time.Time.MarshalJSON, and TimeString is time.Time.String().            *)
(***************************************************************************)
ExpiryTexts == {"2030-01-01T00:00:00Z", "2020-01-01T02:00:00+02:00"}
ZeroTime == [sec |-> 0, off |-> 0]

ParseRFC3339(s) ==
  CASE s = "2030-01-01T00:00:00Z" -> [sec |-> 1893456000, off |-> 0]
    [] s = "2020-01-01T02:00:00+02:00" -> [sec |-> 1577836800, off |-> 120]
    [] OTHER -> ZeroTime

FormatRFC3339(t) ==
  CASE t = [sec |-> 1893456000, off |-> 0] -> "2030-01-01T00:00:00Z"
    [] t = [sec |-> 1577836800, off |-> 120] -> "2020-01-01T02:00:00+02:00"
    [] OTHER -> "0001-01-01T00:00:00Z"

TimeString(t) ==
  CASE t = [sec |-> 1893456000, off |-> 0] -> "2030-01-01 00:00:00 +0000 UTC"
    [] t = [sec |-> 1577836800, off |-> 120] -> "2020-01-01 02:00:00 +0200 +0200"
    [] OTHER -> "0001-01-01 00:00:00 +0000 UTC"

\* the wall clock while the service runs: an instant after the earlier and
\* before the later of the two expiry texts
Now == [sec |-> 1700000000, off |-> 0]

(***************************************************************************)
(* Secret strings held by the store.  A secret is a JSON document of the   *)
(* oauth2.Token shape, or a string that is not JSON, or no secret at all.  *)
(***************************************************************************)
NoSecret == [json |-> "none", access_token |-> "", refresh_token |-> "", expiry |-> ""]
InvalidJSON == [json |-> "invalid", access_token |-> "", refresh_token |-> "", expiry |-> ""]
TokenJSON(a, r, e) == [json |-> "token", access_token |-> a, refresh_token |-> r, expiry |-> e]
EmptyAccessJSON == TokenJSON("", "r1", "2030-01-01T00:00:00Z")

(***************************************************************************)
(* oauth2.Token and its JSON encoding (json.Marshal / json.Unmarshal).     *)
(***************************************************************************)
OAuthToken(a, r, x) == [AccessToken |-> a, RefreshToken |-> r, Expiry |-> x]
NilToken == [AccessToken |-> "", RefreshToken |-> "", Expiry |-> ZeroTime]

Marshal(tk) == TokenJSON(tk.AccessToken, tk.RefreshToken, FormatRFC3339(tk.Expiry))

Unmarshal(s) ==
  IF s.json = "token"
  THEN [err |-> FALSE,
        token |-> OAuthToken(s.access_token, s.refresh_token, ParseRFC3339(s.expiry))]
  ELSE [err |-> TRUE, token |-> NilToken]

(***************************************************************************)
(* Signed tokens.  A JWT names its signing algorithm, the private key that *)
(* signed it, its "sub" claim and whether its "exp" claim has passed.      *)
(* Key pairs are named by one name: the private key "k1" is the            *)
(* counterpart of the public key "k1".                                     *)
(***************************************************************************)
Algs == {"RS256", "RS384", "HS256"}
RSAAlgs == {"RS256", "RS384"}
Keys == {"k1", "k2"}
JWTs == [alg : Algs, signer : Keys, sub : SubValues, expired : BOOLEAN]

(***************************************************************************)
(* Authorization header values: a sequence of words, each either a literal *)
(* piece of text or the compact encoding of a JWT.                         *)
(***************************************************************************)
Lit(s) == [lit |-> s]
Bearer == Lit("Bearer ")
Junk == Lit("x")
OpaqueToken == Lit("valid-token")

TokenWords == JWTs \cup {OpaqueToken}

\* the JWTs that the configured verifier accepts
GoodJWTs == {w \in JWTs : w.alg = "RS256" /\ w.signer = "k1" /\ ~w.expired}

HeadersOf(words, prefixed) ==
  {<<>>, <<Junk>>, <<Bearer>>}
    \cup {<<Bearer, w>> : w \in words}
    \cup {<<Junk, Bearer, w>> : w \in prefixed}

TrimPrefix(h, w) == IF h # <<>> /\ h[1] = w THEN Tail(h) ELSE h
Contains(h, w) == \E i \in DOMAIN h : h[i] = w

(***************************************************************************)
(* Results of Parser.ParseJWT: the error, the token's Valid flag, the type *)
(* of its Claims and the "sub" entry; keyHanded records that the key       *)
(* function returned the public key to the signature verification.         *)
(***************************************************************************)
ParseResult(e, v, c, s, k) ==
  [called |-> TRUE, err |-> e, valid |-> v, claims |-> c, sub |-> s, keyHanded |-> k]
NotParsed ==
  [called |-> FALSE, err |-> FALSE, valid |-> FALSE, claims |-> "nil", sub |-> Absent,
   keyHanded |-> FALSE]
ParseError(k) == ParseResult(TRUE, FALSE, "nil", Absent, k)

(***************************************************************************)
(* key.AwsGetter.GetPublicKey and rest.NewJWTParser: the verifier holds    *)
(* the public key of the configured KMS key and the method RS256.          *)
(***************************************************************************)
GetPublicKey == "k1"
NewJWTParser == [impl |-> "JWTParser", signingMethod |-> "RS256", pubKey |-> GetPublicKey]

(***************************************************************************)
(* jwt.SigningMethod.Verify with an *rsa.PublicKey: the RSA methods accept *)
(* exactly the signatures of the counterpart private key; the HMAC method  *)
(* refuses a key that is not a byte slice.                                 *)
(***************************************************************************)
VerifySignature(alg, signer, pubKey) == alg \in RSAAlgs /\ signer = pubKey

(***************************************************************************)
(* The key function of JWTParser.ParseJWT (validateSigningMethod).         *)
(***************************************************************************)
\* a key function that hands out the key whatever the algorithm
validateAnySigningMethod(j, alg) == [err |-> FALSE, key |-> j.pubKey]

validateSigningMethod(j, alg) ==
  IF alg # j.signingMethod THEN [err |-> TRUE, key |-> ""] ELSE [err |-> FALSE, key |-> j.pubKey]

\* a verifier that decodes the token without verifying its signature
ParseUnverified(j, tokenString) ==
  IF Len(tokenString) # 1 \/ tokenString[1] \notin JWTs
  THEN ParseError(FALSE)
  ELSE LET tk == tokenString[1]
       IN  IF tk.alg # j.signingMethod \/ tk.expired THEN ParseError(FALSE)
           ELSE ParseResult(FALSE, TRUE, "MapClaims", tk.sub, FALSE)

(***************************************************************************)
(* JWTParser.ParseJWT: jwt.Parse with the key function above.  The token   *)
(* string must be one well formed JWT; then the key is looked up, the      *)
(* signature verified and the registered claims validated.                 *)
(***************************************************************************)
ParseJWT(j, tokenString) ==
  IF Len(tokenString) # 1 \/ tokenString[1] \notin JWTs
  THEN ParseError(FALSE)
  ELSE LET tk == tokenString[1]
           kf == validateSigningMethod(j, tk.alg)
       IN  IF kf.err THEN ParseError(FALSE)
           ELSE IF ~VerifySignature(tk.alg, tk.signer, kf.key) THEN ParseError(TRUE)
           ELSE IF tk.expired THEN ParseError(TRUE)
           ELSE ParseResult(FALSE, TRUE, "MapClaims", tk.sub, TRUE)

(***************************************************************************)
(* The results a Parser implementation other than JWTParser can return     *)
(* (the ParserStub of the gate's tests): any error, flag and claims.       *)
(***************************************************************************)
StubResults ==
  {ParseResult(e, v, "MapClaims", s, FALSE) : e \in BOOLEAN, v \in BOOLEAN, s \in SubValues}
    \cup {ParseResult(FALSE, v, "nil", Absent, FALSE) : v \in BOOLEAN}
StubParser == [impl |-> "ParserStub", signingMethod |-> "", pubKey |-> ""]

(***************************************************************************)
(* The nil *JWTParser that NewJWTParser returns with an error.  ParseJWT   *)
(* on it panics when jwt.Parse reaches the key function, which reads       *)
(* j.signingMethod; a token string that is no JWT fails before that.       *)
(***************************************************************************)
NilParser == [impl |-> "nil", signingMethod |-> "", pubKey |-> ""]
ParseJWTPanics(j, tokenString) ==
  j.impl = "nil" /\ Len(tokenString) = 1 /\ tokenString[1] \in JWTs

(***************************************************************************)
(* Configuration (env.GetAwsVars) and the wiring of main: the root domain  *)
(* of the environment, the root domain ApiSaver.SaveToken passes to the    *)
(* resolver, and the Env of the ApiRetriever that main constructs.         *)
(***************************************************************************)
SmsRootDomain == "root"
SaverRootDomain == ""
RetrieverEnv == [SmsRootDomain |-> ""]
TokenDomain == "token"

(***************************************************************************)
(* The identifier AWSResolver.ResolveSecretID computes.                    *)
(***************************************************************************)
SecretIDOf(rootDomain, domain, userID) == rootDomain \o "/" \o domain \o "/" \o userID

SecretIDs ==
  {SecretIDOf(rd, TokenDomain, u) :
     rd \in {SmsRootDomain, SaverRootDomain, RetrieverEnv.SmsRootDomain}, u \in Users}

(***************************************************************************)
(* The remote secret store (AWS Secrets Manager) as seen through           *)
(* secret.Client.  Every call may fail with a service fault; otherwise     *)
(* describe, get and put need an existing secret and create needs a free   *)
(* name.  A failed call leaves the store unchanged.                        *)
(***************************************************************************)
\* An error is the chain of the error values it wraps, outermost first,
\* each named by its type; nil is the empty chain.  The client wraps the
\* exception the service answered in an OperationError and a ResponseError;
\* a request cancelled before any answer carries no service exception.
NoError == <<>>
OperationError(cause) == <<"OperationError">> \o cause
ResponseError(cause) == <<"ResponseError">> \o cause
ServiceException(type) == OperationError(ResponseError(<<type>>))
ResourceNotFoundException == ServiceException("ResourceNotFoundException")
ResourceExistsException == ServiceException("ResourceExistsException")
InternalServiceError == ServiceException("InternalServiceError")
RequestCanceled == OperationError(<<"RequestCanceled">>)

\* what a call meets: no fault, or the error of a fault of the service or
\* of the connection
Faults == {NoError, InternalServiceError, RequestCanceled}

Exists(st, id) == st[id] # NoSecret

DescribeSecret(st, id, fault) ==
  IF fault # NoError THEN fault
  ELSE IF Exists(st, id) THEN NoError ELSE ResourceNotFoundException

GetSecretValue(st, id, fault) ==
  IF fault # NoError THEN [err |-> fault, value |-> NoSecret]
  ELSE IF Exists(st, id) THEN [err |-> NoError, value |-> st[id]]
  ELSE [err |-> ResourceNotFoundException, value |-> NoSecret]

PutSecretValue(st, id, value, fault) ==
  IF fault # NoError THEN [err |-> fault, store |-> st]
  ELSE IF Exists(st, id) THEN [err |-> NoError, store |-> [st EXCEPT ![id] = value]]
  ELSE [err |-> ResourceNotFoundException, store |-> st]

ClientCreateSecret(st, id, value, fault) ==
  IF fault # NoError THEN [err |-> fault, store |-> st]
  ELSE IF Exists(st, id) THEN [err |-> ResourceExistsException, store |-> st]
  ELSE [err |-> NoError, store |-> [st EXCEPT ![id] = value]]

(***************************************************************************)
(* The secret store adapter: AWSResolver, AWSGetter, AWSPutter, AWSCreator *)
(* and IsErrorResourceNotFound.                                            *)
(***************************************************************************)
\* a resolver that returns no identifier along with an error
ResolveSecretIDOrNothing(st, r, fault) ==
  LET secretID == SecretIDOf(r.RootDomain, r.Domain, r.UserID)
      err == DescribeSecret(st, secretID, fault)
  IN  [secretID |-> IF err # NoError THEN "" ELSE secretID, err |-> err]

ResolveSecretID(st, r, fault) ==
  LET secretID == SecretIDOf(r.RootDomain, r.Domain, r.UserID)
  IN  [secretID |-> secretID, err |-> DescribeSecret(st, secretID, fault)]

GetSecret(st, secretID, fault) == GetSecretValue(st, secretID, fault)
PutSecret(st, secretID, token, fault) == PutSecretValue(st, secretID, token, fault)

\* a creator that reports success whatever the client returned
CreateSecretIgnoringError(st, secretID, token, fault) ==
  [ClientCreateSecret(st, secretID, token, fault) EXCEPT !.err = NoError]

CreateSecret(st, secretID, token, fault) == ClientCreateSecret(st, secretID, token, fault)

\* errors.As(err, &target): the first error of the chain of the target type
RECURSIVE ErrorsAs(_, _)
ErrorsAs(err, type) ==
  IF err = <<>> THEN FALSE
  ELSE IF Head(err) = type THEN TRUE
  ELSE ErrorsAs(Tail(err), type)

\* a test that looks at the outermost error only
IsOutermostResourceNotFound(err) ==
  err # <<>> /\ Head(err) = "ResourceNotFoundException"

IsErrorResourceNotFound(err) == ErrorsAs(err, "ResourceNotFoundException")

(***************************************************************************)
(* Request and response bodies.                                            *)
(***************************************************************************)
SaveTokenRequest(u, a, r, e) ==
  [user_id |-> u, access_token |-> a, refresh_token |-> r, expiry |-> e]
NoBody == SaveTokenRequest("", "", "", "")

CompleteBodies ==
  {SaveTokenRequest(u, a, r, e) :
     u \in Users, a \in AccessTokens, r \in RefreshTokens, e \in ExpiryTexts}
IncompleteBodies ==
  {SaveTokenRequest(u, a, r, e) :
     u \in {"u1", ""}, a \in {"a1", ""}, r \in {"r1", ""},
     e \in {"2030-01-01T00:00:00Z", ""}} \ CompleteBodies
SaveBodies == CompleteBodies \cup IncompleteBodies
GetBodies == {SaveTokenRequest(u, "", "", "") : u \in Users \cup {""}}
BodiesOf(kind) == IF kind = "save" THEN SaveBodies ELSE GetBodies

NoResponse == [none |-> TRUE]
AuthErrorBody == [Error |-> "Could not authenticate user"]
RetrieveErrorBody == [Error |-> "Could not retrieve token"]
SaveErrorBody == [Error |-> "Could not save token"]
SaveOKBody == [Message |-> "Token saved successfully"]
TokenBody(tk) ==
  [access_token |-> tk.AccessToken, refresh_token |-> tk.RefreshToken,
   expiry |-> TimeString(tk.Expiry)]

(***************************************************************************)
(* ShouldBindBodyWithJSON into api.SaveTokenRequest: every field carries   *)
(* binding:"required".                                                     *)
(***************************************************************************)
\* a binding that does not require the expiry
BindWithoutExpiry(body) ==
  [err |-> \/ body.user_id = ""
           \/ body.access_token = ""
           \/ body.refresh_token = "",
   req |-> [UserID |-> body.user_id, AccessToken |-> body.access_token,
            RefreshToken |-> body.refresh_token, Expiry |-> ParseRFC3339(body.expiry)]]

BindSaveTokenRequest(body) ==
  [err |-> \/ body.user_id = ""
           \/ body.access_token = ""
           \/ body.refresh_token = ""
           \/ body.expiry = "",
   req |-> [UserID |-> body.user_id, AccessToken |-> body.access_token,
            RefreshToken |-> body.refresh_token, Expiry |-> ParseRFC3339(body.expiry)]]

(***************************************************************************)
(* The state of one request: its inputs (kind, header, body), the gin      *)
(* context (ctx is the value stored under "user_id", aborted is            *)
(* c.IsAborted, status and resp are the response written), the handler's   *)
(* local variables (secretID, tokenJSON) and a record of what ran: parsed  *)
(* is the result the verifier returned, ran tells that the route's handler *)
(* was entered, calls lists the store calls issued with the error each     *)
(* returned, fault tells that one of them hit a service fault, and         *)
(* parseCalls counts the calls of the verifier.                            *)
(***************************************************************************)
Call(op, id, value, err) == [op |-> op, id |-> id, value |-> value, err |-> err]

IdleReq ==
  [pc |-> "idle", kind |-> "get", header |-> <<>>, body |-> NoBody, parsed |-> NotParsed,
   ctx |-> Absent, status |-> NoStatus, resp |-> NoResponse, calls |-> <<>>,
   aborted |-> FALSE, ran |-> FALSE, secretID |-> "", tokenJSON |-> NoSecret,
   fault |-> FALSE, parseCalls |-> 0]

NewReq(kind, header, body) ==
  [IdleReq EXCEPT !.kind = kind, !.header = header, !.body = body]

\* a gate that writes the error response without aborting the chain
JSONWithoutAbort(q, code, body) ==
  [q EXCEPT !.pc = "handler", !.status = code, !.resp = body]

\* c.AbortWithStatusJSON(code, body)
AbortWithStatusJSON(q, code, body) ==
  [q EXCEPT !.pc = "done", !.aborted = TRUE, !.status = code, !.resp = body]

\* c.JSON(code, body) followed by the handler's return
RespondJSON(q, code, body) ==
  [q EXCEPT !.pc = "done", !.status = code, !.resp = body]

\* gin.Recovery: a panic in a handler aborts the request with status 500
Recovery(q) ==
  [q EXCEPT !.pc = "done", !.aborted = TRUE, !.status = StatusInternalServerError]

(***************************************************************************)
(* rest.Authenticate, the gate run before every route.  SubRejected is its *)
(* test of the "sub" entry: the entry is missing or equals "".             *)
(***************************************************************************)
SubRejectedOnlyMissing(userID) == userID = Absent

SubRejected(userID) == userID = Absent \/ userID = StrVal("")

\* a gate that stores the identity named in the request body
SetUserIDFromBody(q, sub) == [q EXCEPT !.ctx = StrVal(q.body.user_id)]

\* c.Set("user_id", claims["sub"])
SetUserID(q, sub) == [q EXCEPT !.ctx = sub]

AuthenticateResult(q, p, stubResult) ==
  LET authHeader == q.header
      tokenString == TrimPrefix(authHeader, Bearer)
      token == IF p.impl = "ParserStub" THEN stubResult ELSE ParseJWT(p, tokenString)
      parsedReq == [q EXCEPT !.parsed = token, !.parseCalls = @ + 1]
  IN  IF authHeader = <<>>
      THEN AbortWithStatusJSON(q, StatusBadRequest, AuthErrorBody)
      ELSE IF ~Contains(authHeader, Bearer) \/ tokenString = <<>>
      THEN AbortWithStatusJSON(q, StatusBadRequest, AuthErrorBody)
      ELSE IF ParseJWTPanics(p, tokenString)
      THEN Recovery(q)
      ELSE IF token.err \/ ~token.valid
      THEN AbortWithStatusJSON(parsedReq, StatusUnauthorized, AuthErrorBody)
      ELSE IF token.claims # "MapClaims"
      THEN AbortWithStatusJSON(parsedReq, StatusUnauthorized, AuthErrorBody)
      ELSE IF SubRejected(token.sub)
      THEN AbortWithStatusJSON(parsedReq, StatusUnauthorized, AuthErrorBody)
      ELSE [SetUserID(parsedReq, token.sub) EXCEPT !.pc = "handler"]

HeadersFor(p) ==
  IF p.impl = "ParserStub" THEN HeadersOf({OpaqueToken}, {OpaqueToken})
  ELSE HeadersOf(JWTs, GoodJWTs)
StubResultsFor(p) == IF p.impl = "ParserStub" THEN StubResults ELSE {NotParsed}

\* the gate on a request drawn from the given headers and save bodies
AuthenticateFrom(r, headers, saveBodies) ==
  /\ boot.phase = "serving"
  /\ req[r].pc = "idle"
  /\ \E kind \in {"save", "get"} :
       \E header \in headers,
          body \in (IF kind = "save" THEN saveBodies ELSE BodiesOf(kind)),
          stubResult \in StubResultsFor(parser) :
         req' = [req EXCEPT ![r] = AuthenticateResult(NewReq(kind, header, body),
                                                      parser, stubResult)]
  /\ UNCHANGED <<parser, store, saved, boot, aes>>

Authenticate(r) == AuthenticateFrom(r, HeadersFor(parser), BodiesOf("save"))

(***************************************************************************)
(* ApiSaver.SaveToken's choice after the resolver returned err: create on  *)
(* the not-found error, return any other error, put when there is none.    *)
(***************************************************************************)
\* a saver that never creates, and one that never puts
SaveTokenBranchNoCreate(err) == IF err # NoError THEN "return" ELSE "put"
SaveTokenBranchNoPut(err) == IF err = InternalServiceError THEN "return" ELSE "create"

\* a saver that goes on to put after a resolve error that is not not-found
SaveTokenBranchIgnoreError(err) ==
  IF IsErrorResourceNotFound(err) THEN "create" ELSE "put"

\* a saver that reads the secret where it should put it
SaveTokenBranchGet(err) ==
  IF err # NoError
  THEN IF IsErrorResourceNotFound(err) THEN "create" ELSE "return"
  ELSE "get"

SaveTokenBranch(err) ==
  IF err # NoError
  THEN IF IsErrorResourceNotFound(err) THEN "create" ELSE "return"
  ELSE "put"

(***************************************************************************)
(* rest.SaveTokenHandler up to the return of the resolver's describe call  *)
(* inside ApiSaver.SaveToken.                                              *)
(***************************************************************************)
SaveTokenHandler(r) ==
  /\ req[r].pc = "handler"
  /\ req[r].kind = "save"
  /\ LET q == [req[r] EXCEPT !.ran = TRUE]
         bound == BindSaveTokenRequest(q.body)
     IN  IF bound.err
         THEN /\ req' = [req EXCEPT ![r] = RespondJSON(q, StatusBadRequest, SaveErrorBody)]
              /\ UNCHANGED saved
         ELSE \E fault \in Faults :
                LET tokenJSON == Marshal(OAuthToken(bound.req.AccessToken,
                                                    bound.req.RefreshToken,
                                                    bound.req.Expiry))
                    res == ResolveSecretID(store,
                                           [RootDomain |-> SaverRootDomain,
                                            Domain |-> TokenDomain,
                                            UserID |-> bound.req.UserID], fault)
                    q1 == [q EXCEPT !.tokenJSON = tokenJSON, !.secretID = res.secretID,
                                    !.fault = (fault # NoError),
                                    !.calls = Append(@, Call("describe", res.secretID,
                                                             NoSecret, res.err))]
                    branch == SaveTokenBranch(res.err)
                IN  /\ req' = [req EXCEPT ![r] =
                          IF branch = "return"
                          THEN RespondJSON(q1, StatusInternalServerError, SaveErrorBody)
                          ELSE [q1 EXCEPT !.pc = branch]]
                    /\ saved' = [saved EXCEPT ![bound.req.UserID] = NoBody]
  /\ UNCHANGED <<parser, store, boot, aes>>

\* a handler that reports success whatever SaveToken returned
SaveResponseAlwaysOK(q, err) == RespondJSON(q, StatusOK, SaveOKBody)

\* the response SaveTokenHandler writes for the error SaveToken returned
SaveResponse(q, err) ==
  IF err # NoError
  THEN RespondJSON(q, StatusInternalServerError, SaveErrorBody)
  ELSE RespondJSON(q, StatusOK, SaveOKBody)

SavedAfter(q, err) ==
  IF err = NoError THEN [saved EXCEPT ![q.body.user_id] = q.body] ELSE saved

(***************************************************************************)
(* ApiSaver.SaveToken, the not-found branch: Ctr.CreateSecret, then the    *)
(* handler's response.                                                     *)
(***************************************************************************)
SaveTokenCreate(r) ==
  /\ req[r].pc = "create"
  /\ \E fault \in Faults :
       LET q == req[r]
           res == CreateSecret(store, q.secretID, q.tokenJSON, fault)
           q1 == [q EXCEPT !.fault = (@ \/ fault # NoError),
                           !.calls = Append(@, Call("create", q.secretID, q.tokenJSON,
                                                    res.err))]
       IN  /\ store' = res.store
           /\ req' = [req EXCEPT ![r] = SaveResponse(q1, res.err)]
           /\ saved' = SavedAfter(q1, res.err)
  /\ UNCHANGED <<parser, boot, aes>>

(***************************************************************************)
(* ApiSaver.SaveToken, the found branch: Put.PutSecret, then the handler's *)
(* response.                                                               *)
(***************************************************************************)
SaveTokenPut(r) ==
  /\ req[r].pc = "put"
  /\ \E fault \in Faults :
       LET q == req[r]
           res == PutSecret(store, q.secretID, q.tokenJSON, fault)
           q1 == [q EXCEPT !.fault = (@ \/ fault # NoError),
                           !.calls = Append(@, Call("put", q.secretID, q.tokenJSON,
                                                    res.err))]
       IN  /\ store' = res.store
           /\ req' = [req EXCEPT ![r] = SaveResponse(q1, res.err)]
           /\ saved' = SavedAfter(q1, res.err)
  /\ UNCHANGED <<parser, boot, aes>>

(***************************************************************************)
(* rest.RetrieveTokenHandler up to the return of the resolver's describe   *)
(* call inside ApiRetriever.RetrieveToken.                                 *)
(***************************************************************************)
\* a handler that only refuses an empty "user_id"
UserIDEmptyOnly(userID) == userID = StrVal("")

\* the handler's test of c.Get("user_id"): not set, or the empty string
UserIDMissing(userID) == userID = Absent \/ userID = StrVal("")

\* a handler that takes the user from the request body
RetrieveUserIDFromBody(q) == StrVal(q.body.user_id)

\* userID, ok := c.Get("user_id")
RetrieveUserID(q) == q.ctx

RetrieveTokenHandler(r) ==
  /\ req[r].pc = "handler"
  /\ req[r].kind = "get"
  /\ LET q == [req[r] EXCEPT !.ran = TRUE]
         userID == RetrieveUserID(q)
     IN  IF UserIDMissing(userID)
         THEN req' = [req EXCEPT ![r] = RespondJSON(q, StatusUnauthorized, RetrieveErrorBody)]
         ELSE IF userID.t # "string"
         THEN req' = [req EXCEPT ![r] = Recovery(q)]
         ELSE \E fault \in Faults :
                LET res == ResolveSecretID(store,
                                           [RootDomain |-> RetrieverEnv.SmsRootDomain,
                                            Domain |-> TokenDomain,
                                            UserID |-> userID.v], fault)
                    q1 == [q EXCEPT !.secretID = res.secretID, !.fault = (fault # NoError),
                                    !.calls = Append(@, Call("describe", res.secretID,
                                                             NoSecret, res.err))]
                IN  req' = [req EXCEPT ![r] =
                          IF res.err # NoError
                          THEN RespondJSON(q1, StatusInternalServerError, RetrieveErrorBody)
                          ELSE [q1 EXCEPT !.pc = "get"]]
  /\ UNCHANGED <<parser, store, saved, boot, aes>>

(***************************************************************************)
(* ApiRetriever.RetrieveToken from Get.GetSecret on, then the handler's    *)
(* response (RetrieveResponse) to the error and token RetrieveToken        *)
(* returned.                                                               *)
(***************************************************************************)
\* a handler that refuses a token whose expiry has passed
RetrieveResponseUnlessExpired(q, err, tk) ==
  IF err \/ tk.AccessToken = "" \/ tk.Expiry.sec < Now.sec
  THEN RespondJSON(q, StatusInternalServerError, RetrieveErrorBody)
  ELSE RespondJSON(q, StatusOK, TokenBody(tk))

\* a handler that returns a token without an access token
RetrieveResponseEmptyAccess(q, err, tk) ==
  IF err
  THEN RespondJSON(q, StatusInternalServerError, RetrieveErrorBody)
  ELSE RespondJSON(q, StatusOK, TokenBody(tk))

RetrieveResponse(q, err, tk) ==
  IF err \/ tk.AccessToken = ""
  THEN RespondJSON(q, StatusInternalServerError, RetrieveErrorBody)
  ELSE RespondJSON(q, StatusOK, TokenBody(tk))

RetrieveTokenGet(r) ==
  /\ req[r].pc = "get"
  /\ \E fault \in Faults :
       LET q == req[r]
           got == GetSecret(store, q.secretID, fault)
           q1 == [q EXCEPT !.fault = (@ \/ fault # NoError),
                           !.calls = Append(@, Call("get", q.secretID, got.value, got.err))]
           parsedToken == Unmarshal(got.value)
           err == got.err # NoError \/ parsedToken.err
           tk == parsedToken.token
       IN  req' = [req EXCEPT ![r] = RetrieveResponse(q1, err, tk)]
  /\ UNCHANGED <<parser, store, saved, boot, aes>>

(***************************************************************************)
(* The router's serving loop (GinRouter.StartServer): the response of a    *)
(* finished request is sent and the slot takes the next request.           *)
(***************************************************************************)
Respond(r) ==
  /\ req[r].pc = "done"
  /\ req' = [req EXCEPT ![r] = IdleReq]
  /\ UNCHANGED <<parser, store, saved, boot, aes>>

(***************************************************************************)
(* Process start (main).  boot.phase tells whether main has not run yet,   *)
(* has started the server or has returned without starting it;             *)
(* boot.fetches counts the calls of key.Getter.GetPublicKey.               *)
(***************************************************************************)
Booting == [phase |-> "start", fetches |-> 0]
Serving(n) == [phase |-> "serving", fetches |-> n]
Exited(n) == [phase |-> "exited", fetches |-> n]

\* what the KMS call and the decoding of the key yield at construction
KeyOutcomes == {"ok", "kms error", "undecodable"}

\* a constructor that looks the key up a second time to check it
ConstructJWTParserTwice(outcome) ==
  IF outcome = "kms error" THEN [parser |-> NilParser, err |-> TRUE, fetches |-> 1]
  ELSE IF outcome = "undecodable" THEN [parser |-> NilParser, err |-> TRUE, fetches |-> 2]
  ELSE [parser |-> NewJWTParser, err |-> FALSE, fetches |-> 2]

\* rest.NewJWTParser with the outcome of its one GetPublicKey call
ConstructJWTParser(outcome) ==
  IF outcome = "kms error" THEN [parser |-> NilParser, err |-> TRUE, fetches |-> 1]
  ELSE IF outcome = "undecodable" THEN [parser |-> NilParser, err |-> TRUE, fetches |-> 1]
  ELSE [parser |-> NewJWTParser, err |-> FALSE, fetches |-> 1]

\* main after NewJWTParser returned: the error is logged and main goes on
\* to build the router and start the server
MainAfterParser(psr) == Serving(psr.fetches)

\* main: it returns when the environment or a client cannot be set up,
\* otherwise it constructs the verifier and starts the server
Main ==
  /\ boot.phase = "start"
  /\ \E setupOK \in BOOLEAN, outcome \in KeyOutcomes :
       IF ~setupOK
       THEN boot' = Exited(0) /\ UNCHANGED parser
       ELSE LET psr == ConstructJWTParser(outcome)
            IN  boot' = MainAfterParser(psr) /\ parser' = psr.parser
  /\ UNCHANGED <<store, req, saved, aes>>

(***************************************************************************)
(* Package encrypt: the AES service.  A byte has two bits; a string is a   *)
(* sequence of bytes.  The block cipher is a keyed function on blocks of   *)
(* BlockSize bytes, used in cipher feedback mode, which needs only its     *)
(* forward direction.  The text encoding writes each byte as two           *)
(* characters of a two-letter alphabet, as base64 writes three bytes as    *)
(* four characters of its alphabet; a text of odd length or with a byte    *)
(* outside the alphabet does not decode.                                   *)
(***************************************************************************)
BlockSize == 2
MaxPlainLen == 3

Bytes == 0..3
Xor(a, b) == (((a \div 2) + (b \div 2)) % 2) * 2 + ((a + b) % 2)

SeqsUpTo(n) == UNION {[1..m -> Bytes] : m \in 0..n}

\* keys of 16 and 32 bytes and one of a length aes.NewCipher refuses
AESKeys == {[len |-> 16, v |-> 1], [len |-> 32, v |-> 2], [len |-> 5, v |-> 1]}
NewCipherFails(key) == key.len \notin {16, 24, 32}

\* the block cipher's encryption of one block under a key
EncryptBlock(key, block) == [i \in 1..BlockSize |-> (block[i] + key.v + i) % 4]

\* cipher.NewCFBEncrypter / NewCFBDecrypter with XORKeyStream: each block
\* of the data is xored with the encryption of the previous ciphertext block
RECURSIVE XORKeyStream(_, _, _, _)
XORKeyStream(key, prev, data, decrypting) ==
  IF data = <<>> THEN <<>>
  ELSE LET n == IF Len(data) < BlockSize THEN Len(data) ELSE BlockSize
           ks == EncryptBlock(key, prev)
           in == SubSeq(data, 1, n)
           out == [i \in 1..n |-> Xor(in[i], ks[i])]
           next == IF decrypting THEN in ELSE out
       IN  out \o XORKeyStream(key, next, SubSeq(data, n + 1, Len(data)), decrypting)

\* base64.StdEncoding
Alphabet == <<1, 2>>
RECURSIVE EncodeToString(_)
EncodeToString(bytes) ==
  IF bytes = <<>> THEN <<>>
  ELSE <<Alphabet[(Head(bytes) \div 2) + 1], Alphabet[(Head(bytes) % 2) + 1]>>
         \o EncodeToString(Tail(bytes))

LetterValue(c) == IF c = Alphabet[1] THEN 0 ELSE 1
RECURSIVE DecodeLetters(_)
DecodeLetters(text) ==
  IF text = <<>> THEN <<>>
  ELSE <<LetterValue(text[1]) * 2 + LetterValue(text[2])>>
         \o DecodeLetters(SubSeq(text, 3, Len(text)))

DecodeString(text) ==
  IF Len(text) % 2 # 0 \/ \E i \in DOMAIN text : text[i] \notin {Alphabet[1], Alphabet[2]}
  THEN [err |-> TRUE, bytes |-> <<>>]
  ELSE [err |-> FALSE, bytes |-> DecodeLetters(text)]

AESError == [err |-> TRUE, text |-> <<>>]

\* Service.Encrypt with the initialization vector rand.Reader delivered
Encrypt(plainText, key, iv) ==
  IF NewCipherFails(key) THEN AESError
  ELSE [err |-> FALSE,
        text |-> EncodeToString(iv \o XORKeyStream(key, iv, plainText, FALSE))]

\* Service.Decrypt
Decrypt(cipherText, key) ==
  LET decoded == DecodeString(cipherText)
      cipherBytesList == decoded.bytes
  IN  IF decoded.err THEN AESError
      ELSE IF NewCipherFails(key) THEN AESError
      ELSE IF Len(cipherBytesList) < BlockSize THEN AESError
      ELSE LET initializationVector == SubSeq(cipherBytesList, 1, BlockSize)
               rest == SubSeq(cipherBytesList, BlockSize + 1, Len(cipherBytesList))
           IN  [err |-> FALSE,
                text |-> EncodeToString(XORKeyStream(key, initializationVector, rest, TRUE))]

\* a caller of the service: it encrypts a text and decrypts the result
\* with the same key, or decrypts a text of its own
AESIdle == [pc |-> "idle", plain |-> <<>>, key |-> [len |-> 16, v |-> 1],
            cipher |-> <<>>, encErr |-> FALSE, out |-> <<>>, err |-> FALSE]

AESEncrypt ==
  /\ aes.pc = "idle"
  /\ \E p \in SeqsUpTo(MaxPlainLen), k \in AESKeys, iv \in [1..BlockSize -> Bytes] :
       LET res == Encrypt(p, k, iv)
       IN  aes' = [AESIdle EXCEPT !.pc = "encrypted", !.plain = p, !.key = k,
                                  !.cipher = res.text, !.encErr = res.err]
  /\ UNCHANGED <<parser, store, req, saved, boot>>

AESDecryptEncrypted ==
  /\ aes.pc = "encrypted"
  /\ ~aes.encErr
  /\ LET res == Decrypt(aes.cipher, aes.key)
     IN  aes' = [aes EXCEPT !.pc = "round trip", !.out = res.text, !.err = res.err]
  /\ UNCHANGED <<parser, store, req, saved, boot>>

AESDecryptText ==
  /\ aes.pc = "idle"
  /\ \E text \in SeqsUpTo(2 * BlockSize), k \in AESKeys :
       LET res == Decrypt(text, k)
       IN  aes' = [AESIdle EXCEPT !.pc = "decrypted", !.key = k, !.cipher = text,
                                  !.out = res.text, !.err = res.err]
  /\ UNCHANGED <<parser, store, req, saved, boot>>

AESReturn ==
  /\ aes.pc # "idle"
  /\ aes' = AESIdle
  /\ UNCHANGED <<parser, store, req, saved, boot>>

InitAES ==
  /\ parser = NewJWTParser
  /\ boot = Serving(1)
  /\ aes = AESIdle
  /\ store = [id \in SecretIDs |-> NoSecret]
  /\ req = [r \in Reqs |-> IdleReq]
  /\ saved = [u \in Users |-> NoBody]

NextAES == AESEncrypt \/ AESDecryptEncrypted \/ AESDecryptText \/ AESReturn

SpecAES == InitAES /\ [][NextAES]_vars

(***************************************************************************)
(* The service after main has wired it: the verifier constructed from the  *)
(* KMS key, no request in progress, and a store that holds no secret or    *)
(* secrets written by other means under the names the service uses.        *)
(***************************************************************************)
InitStores ==
  {st \in [SecretIDs -> {NoSecret, InvalidJSON, EmptyAccessJSON}] :
     \A id \in SecretIDs :
       st[id] # NoSecret => \E u \in Users : id = SecretIDOf(SaverRootDomain, TokenDomain, u)}

InitWith(p) ==
  /\ parser = p
  /\ boot = Serving(1)
  /\ aes = AESIdle
  /\ store \in InitStores
  /\ req = [r \in Reqs |-> IdleReq]
  /\ saved = [u \in Users |-> NoBody]

Init == InitWith(NewJWTParser)

Next ==
  \E r \in Reqs :
    \/ Authenticate(r)
    \/ SaveTokenHandler(r)
    \/ SaveTokenCreate(r)
    \/ SaveTokenPut(r)
    \/ RetrieveTokenHandler(r)
    \/ RetrieveTokenGet(r)
    \/ Respond(r)

Spec == Init /\ [][Next]_vars

(***************************************************************************)
(* The process from its start: main runs once, then the server serves.     *)
(***************************************************************************)
InitBoot ==
  /\ parser = NilParser
  /\ boot = Booting
  /\ aes = AESIdle
  /\ store \in InitStores
  /\ req = [r \in Reqs |-> IdleReq]
  /\ saved = [u \in Users |-> NoBody]

NextBoot == Main \/ Next

SpecBoot == InitBoot /\ [][NextBoot]_vars

(***************************************************************************)
(* Two requests in flight at once (gin serves each request on its own      *)
(* goroutine), over a smaller choice of requests and an empty store.       *)
(***************************************************************************)
ConcReqs == {"r1", "r2"}
ConcJWTs ==
  {t \in JWTs : t.signer = "k1" /\ t.alg \in {"RS256", "RS384"}
                 /\ t.sub \in {Absent, StrVal("u1")}}
ConcHeaders == HeadersOf(ConcJWTs \cup {OpaqueToken}, {})
ConcSaveBodies ==
  {SaveTokenRequest("u1", a, "r1", "2030-01-01T00:00:00Z") : a \in {"a1", "a2", ""}}

InitConc ==
  /\ parser = NewJWTParser
  /\ boot = Serving(1)
  /\ aes = AESIdle
  /\ store = [id \in SecretIDs |-> NoSecret]
  /\ req = [r \in ConcReqs |-> IdleReq]
  /\ saved = [u \in Users |-> NoBody]

NextConc ==
  \E r \in ConcReqs :
    \/ AuthenticateFrom(r, ConcHeaders, ConcSaveBodies)
    \/ SaveTokenHandler(r)
    \/ SaveTokenCreate(r)
    \/ SaveTokenPut(r)
    \/ RetrieveTokenHandler(r)
    \/ RetrieveTokenGet(r)
    \/ Respond(r)

SpecConc == InitConc /\ [][NextConc]_vars

(***************************************************************************)
(* The handlers called on a context prepared by the caller, without the    *)
(* gate in front: "user_id" is whatever the caller set, or not set.        *)
(***************************************************************************)
InvokeHandler(r) ==
  /\ req[r].pc = "idle"
  /\ \E kind \in {"save", "get"} :
       \E body \in BodiesOf(kind), userID \in SubValues :
         req' = [req EXCEPT ![r] = [NewReq(kind, <<>>, body)
                                      EXCEPT !.ctx = userID, !.pc = "handler"]]
  /\ UNCHANGED <<parser, store, saved, boot, aes>>

NextHandlers ==
  \E r \in Reqs :
    \/ InvokeHandler(r)
    \/ SaveTokenHandler(r)
    \/ SaveTokenCreate(r)
    \/ SaveTokenPut(r)
    \/ RetrieveTokenHandler(r)
    \/ RetrieveTokenGet(r)
    \/ Respond(r)

SpecHandlers == Init /\ [][NextHandlers]_vars

(***************************************************************************)
(* The gate in front of an arbitrary Parser implementation.                *)
(***************************************************************************)
InitGate == InitWith(StubParser)

SpecGate == InitGate /\ [][Next]_vars

TypeOK ==
  /\ parser \in {NewJWTParser, StubParser, NilParser}
  /\ boot.phase \in {"start", "serving", "exited"}
  /\ \A r \in Reqs :
       /\ req[r].pc \in {"idle", "handler", "create", "put", "get", "done"}
       /\ req[r].status \in {NoStatus, StatusOK, StatusBadRequest, StatusUnauthorized,
                             StatusInternalServerError}
       /\ Len(req[r].calls) <= 2

(***************************************************************************)
(* Properties.  Started(r) tells that slot r holds a request the gate has  *)
(* seen; Done(r) that its response is written.                             *)
(***************************************************************************)
Started(r) == req[r].pc # "idle"
Done(r) == req[r].pc = "done"
Passed(r) == Started(r) /\ ~req[r].aborted /\ req[r].ctx # Absent

\* the token the client sent after the exact prefix "Bearer ", if any
SentJWT(r) == Len(req[r].header) = 2 /\ req[r].header[1] = Bearer /\ req[r].header[2] \in JWTs

\* the failures of the gate's checks, stated on the request and on what
\* the verifier returned
HeaderAbsent(q) == q.header = <<>>
HeaderMalformed(q) == q.header # <<>> /\ ~(q.header[1] = Bearer /\ Len(q.header) > 1)
VerifierFailed(q) == q.parsed.called /\ q.parsed.err
TokenNotValid(q) == q.parsed.called /\ ~q.parsed.valid
ClaimsNotMap(q) == q.parsed.called /\ q.parsed.claims # "MapClaims"
SubMissing(q) == q.parsed.called /\ q.parsed.sub \in {Absent, StrVal("")}
GateCheckFailed(q) ==
  \/ HeaderAbsent(q)
  \/ HeaderMalformed(q)
  \/ VerifierFailed(q)
  \/ TokenNotValid(q)
  \/ ClaimsNotMap(q)
  \/ SubMissing(q)

\* C1: whenever a check of the gate fails, the request is aborted, the
\* route's handler never runs for it and no store call is issued for it.
C1_RejectedNeverReachesHandler ==
  \A r \in Reqs :
    (Started(r) /\ GateCheckFailed(req[r]))
      => /\ req[r].pc = "done"
         /\ req[r].aborted
         /\ ~req[r].ran
         /\ req[r].calls = <<>>
         /\ req[r].ctx = Absent

C1_Witness ==
  \E r \in Reqs : Done(r) /\ req[r].aborted /\ VerifierFailed(req[r]) /\ req[r].kind = "save"

\* C2: a verified token whose "sub" differs from the body's user_id is
\* rejected with 401 and the authentication error body, and the handler
\* does not run.
C2_SubjectMismatchRejected ==
  \A r \in Reqs :
    (/\ Started(r)
     /\ req[r].parsed.called /\ ~req[r].parsed.err /\ req[r].parsed.valid
     /\ req[r].parsed.claims = "MapClaims"
     /\ req[r].parsed.sub # StrVal(req[r].body.user_id))
      => /\ req[r].status = StatusUnauthorized
         /\ req[r].resp = AuthErrorBody
         /\ ~req[r].ran

\* the store calls of a request, by operation
CallsOf(r, op) == {i \in DOMAIN req[r].calls : req[r].calls[i].op = op}
SerializedBody(b) ==
  Marshal(OAuthToken(b.access_token, b.refresh_token, ParseRFC3339(b.expiry)))

\* C3: a complete save request whose resolve fails with the not-found
\* error invokes resolve once, then Create exactly once, never Put, and
\* its result is the result of that Create.
C3_NotFoundCreatesOnce ==
  \A r \in Reqs :
    (/\ req[r].kind = "save"
     /\ Len(req[r].calls) >= 1
     /\ req[r].calls[1].err = ResourceNotFoundException)
      => /\ Cardinality(CallsOf(r, "describe")) = 1
         /\ CallsOf(r, "put") = {}
         /\ Cardinality(CallsOf(r, "create")) <= 1
         /\ req[r].pc \in {"create", "done"}
         /\ Done(r) =>
              /\ Len(req[r].calls) = 2
              /\ req[r].calls[2].op = "create"
              /\ req[r].calls[2].id = req[r].calls[1].id
              /\ req[r].calls[2].value = SerializedBody(req[r].body)
              /\ req[r].status =
                   IF req[r].calls[2].err = NoError THEN StatusOK
                   ELSE StatusInternalServerError

C3_Witness ==
  \E r \in Reqs :
    /\ Done(r) /\ req[r].kind = "save" /\ Len(req[r].calls) = 2
    /\ req[r].calls[1].err = ResourceNotFoundException
    /\ req[r].calls[2].op = "create" /\ req[r].calls[2].err = NoError
    /\ req[r].status = StatusOK

\* C4: a save request whose resolve succeeds invokes resolve once, then
\* Put exactly once with the resolved identifier and the serialized
\* token, and never Create.
C4_FoundPutsOnce ==
  \A r \in Reqs :
    (/\ req[r].kind = "save"
     /\ Len(req[r].calls) >= 1
     /\ req[r].calls[1].err = NoError)
      => /\ Cardinality(CallsOf(r, "describe")) = 1
         /\ CallsOf(r, "create") = {}
         /\ Cardinality(CallsOf(r, "put")) <= 1
         /\ req[r].pc \in {"put", "done"}
         /\ Done(r) =>
              /\ Len(req[r].calls) = 2
              /\ req[r].calls[2].op = "put"
              /\ req[r].calls[2].id = req[r].calls[1].id
              /\ req[r].calls[2].value = SerializedBody(req[r].body)

C4_Witness ==
  \E r \in Reqs :
    /\ Done(r) /\ req[r].kind = "save" /\ Len(req[r].calls) = 2
    /\ req[r].calls[1].err = NoError
    /\ req[r].calls[2].op = "put" /\ req[r].calls[2].err = NoError
    /\ store[req[r].secretID] = SerializedBody(req[r].body)

\* the user a request addresses: the body's user_id for a save, the
\* identity in the context for a retrieve
UserOf(r) == IF req[r].kind = "save" THEN req[r].body.user_id ELSE req[r].ctx.v

\* C5: after a save for u that responded 200 and no other save for u, a
\* retrieve by the authenticated user u whose store calls meet no service
\* fault responds 200 with exactly the saved access token, refresh token
\* and expiry.
C5_SaveRetrieveRoundTrip ==
  \A r \in Reqs :
    (/\ Done(r) /\ req[r].kind = "get" /\ req[r].ran
     /\ req[r].ctx.t = "string" /\ req[r].ctx.v \in Users
     /\ saved[req[r].ctx.v] # NoBody
     /\ ~req[r].fault)
      => /\ req[r].status = StatusOK
         /\ req[r].resp = [access_token |-> saved[req[r].ctx.v].access_token,
                           refresh_token |-> saved[req[r].ctx.v].refresh_token,
                           expiry |-> saved[req[r].ctx.v].expiry]

\* C6: save and retrieve resolve, for the user u they address, the
\* identifier "<configured root domain>/token/<u>".
C6_ConfiguredRootIdentifier ==
  \A r \in Reqs :
    Len(req[r].calls) >= 1
      => \A i \in DOMAIN req[r].calls :
           req[r].calls[i].id = SecretIDOf(SmsRootDomain, "token", UserOf(r))

\* C7: a token whose declared algorithm is not RS256 makes ParseJWT return
\* an error without the public key being handed to the signature
\* verification, and the gate rejects the request.
C7_AlgorithmMismatchRejected ==
  \A r \in Reqs :
    (Started(r) /\ SentJWT(r) /\ req[r].header[2].alg # "RS256")
      => /\ req[r].parsed.called
         /\ req[r].parsed.err
         /\ ~req[r].parsed.keyHanded
         /\ req[r].aborted
         /\ req[r].status = StatusUnauthorized
         /\ ~req[r].ran

C7_Witness ==
  \E r \in Reqs :
    /\ Done(r) /\ SentJWT(r) /\ req[r].aborted
    /\ req[r].header[2] = [alg |-> "RS384", signer |-> parser.pubKey,
                           sub |-> StrVal("u1"), expired |-> FALSE]

\* C8: a token signed with a private key that is not the counterpart of
\* the verifier's public key makes ParseJWT return an error; a token that
\* verifies was signed by the counterpart key.
C8_WrongKeyRejected ==
  \A r \in Reqs :
    (Started(r) /\ SentJWT(r))
      => /\ req[r].parsed.called
         /\ req[r].header[2].signer # parser.pubKey => req[r].parsed.err
         /\ ~req[r].parsed.err => req[r].header[2].signer = parser.pubKey

C8_Witness ==
  \E r \in Reqs :
    /\ Done(r) /\ SentJWT(r) /\ req[r].parsed.err /\ req[r].aborted
    /\ req[r].header[2] = [alg |-> "RS256", signer |-> "k2",
                           sub |-> StrVal("u1"), expired |-> FALSE]

\* C9: the gate rejects with 401 every request whose parsed token is
\* reported not valid, or whose claims are not a MapClaims, or whose
\* claims lack "sub" or carry an empty "sub".
C9_InvalidTokenOrClaimsRejected ==
  \A r \in Reqs :
    (/\ Started(r)
     /\ \/ TokenNotValid(req[r])
        \/ ClaimsNotMap(req[r])
        \/ SubMissing(req[r]))
      => /\ req[r].status = StatusUnauthorized
         /\ req[r].resp = AuthErrorBody
         /\ req[r].aborted
         /\ ~req[r].ran

C9_Witness ==
  \E r \in Reqs :
    /\ Done(r) /\ req[r].status = StatusUnauthorized
    /\ req[r].parsed.called /\ ~req[r].parsed.err /\ req[r].parsed.valid
    /\ req[r].parsed.claims = "MapClaims" /\ req[r].parsed.sub = StrVal("")

\* C10: a request with no Authorization header is rejected with status
\* 401 and the authentication error body.
C10_MissingHeaderUnauthorized ==
  \A r \in Reqs :
    (Started(r) /\ HeaderAbsent(req[r]))
      => /\ req[r].status = StatusUnauthorized
         /\ req[r].resp = AuthErrorBody

\* C11: two requests that the gate rejected, for whatever reasons, carry
\* the same response, status and body alike.
C11_RejectionsIndistinguishable ==
  \A r1, r2 \in ConcReqs :
    (Done(r1) /\ Done(r2) /\ GateCheckFailed(req[r1]) /\ GateCheckFailed(req[r2]))
      => /\ req[r1].status = req[r2].status
         /\ req[r1].resp = req[r2].resp

\* C12: the verifier is invoked only for a header that starts with the
\* exact prefix "Bearer " and has something after it; for every other
\* header the request is rejected and the verifier is not invoked.
C12_VerifierOnlyAfterExactPrefix ==
  \A r \in Reqs :
    Started(r) =>
      /\ req[r].parsed.called
           => (Len(req[r].header) > 1 /\ req[r].header[1] = Bearer)
      /\ (HeaderAbsent(req[r]) \/ HeaderMalformed(req[r]))
           => (req[r].aborted /\ ~req[r].ran /\ ~req[r].parsed.called)

\* C13: a request is authenticated or not, nothing in between: "user_id"
\* is set exactly when every check of the gate succeeded, the handler is
\* reached exactly then, and the identity stored is the "sub" claim of the
\* token that was verified; on a failure path "user_id" stays unset.
HandlerReached(q) == q.pc = "handler" \/ q.ran

ReadTimeString(s) ==
  CASE s = "2030-01-01 00:00:00 +0000 UTC" -> [sec |-> 1893456000, off |-> 0]
    [] s = "2020-01-01 02:00:00 +0200 +0200" -> [sec |-> 1577836800, off |-> 120]
    [] OTHER -> ZeroTime

\* a retrieve whose describe and get both succeeded and returned a token
\* document with an access token
RetrievedToken(r) ==
  /\ Done(r) /\ req[r].kind = "get" /\ req[r].ran
  /\ Len(req[r].calls) = 2
  /\ req[r].calls[1].err = NoError /\ req[r].calls[2].err = NoError
  /\ req[r].calls[2].value.json = "token"
  /\ req[r].calls[2].value.access_token # ""

LacksRequiredField(body) ==
  \/ body.user_id = ""
  \/ body.access_token = ""
  \/ body.refresh_token = ""
  \/ body.expiry = ""

\* C15: when the body of a save lacks one of user_id, access_token,
\* refresh_token and expiry, the step of SaveTokenHandler ends the request
\* with 400 and {"Error": "Could not save token"}, issues no call of the
\* Saver and leaves the secret store as it was.
C15_IncompleteBodyBadRequest ==
  [][\A r \in Reqs :
       (/\ req[r].pc = "handler" /\ req[r].kind = "save"
        /\ LacksRequiredField(req[r].body)
        /\ req'[r] # req[r])
         => /\ req'[r].pc = "done" /\ req'[r].ran
            /\ req'[r].status = StatusBadRequest
            /\ req'[r].resp = SaveErrorBody
            /\ req'[r].calls = <<>>
            /\ store' = store]_vars

C15_Witness ==
  \E r \in Reqs :
    /\ Done(r) /\ req[r].kind = "save" /\ req[r].ran
    /\ req[r].body.expiry = "" /\ req[r].body.user_id = "u1"
    /\ req[r].body.access_token = "a1" /\ req[r].body.refresh_token = "r1"
    /\ req[r].status = StatusBadRequest /\ req[r].calls = <<>>

\* the store calls of a save all succeeded: the resolver's describe found
\* the secret or reported it missing, and the put or create that followed
\* returned no error
SaveStepsSucceeded(q) ==
  /\ Len(q.calls) = 2
  /\ q.calls[1].op = "describe"
  /\ \/ q.calls[1].err = NoError /\ q.calls[2].op = "put"
     \/ q.calls[1].err = ResourceNotFoundException /\ q.calls[2].op = "create"
  /\ q.calls[2].err = NoError

\* C16: a save with a complete body responds 200 with the success message
\* exactly when the resolve step and the put or create after it succeeded,
\* and the token is then in the store; otherwise it responds 500 with the
\* save error body and the failed call is the last call of the request.
\* No response is written before the request is done.
C16_SaveAllOrError ==
  \A r \in Reqs :
    (req[r].kind = "save" /\ req[r].ran /\ ~LacksRequiredField(req[r].body))
      => /\ ~Done(r) => req[r].status = NoStatus
         /\ Done(r) =>
              /\ Len(req[r].calls) >= 1
              /\ (req[r].status = StatusOK /\ req[r].resp = SaveOKBody)
                   <=> SaveStepsSucceeded(req[r])
              /\ SaveStepsSucceeded(req[r])
                   => store[req[r].secretID] = SerializedBody(req[r].body)
              /\ ~SaveStepsSucceeded(req[r])
                   => /\ req[r].status = StatusInternalServerError
                      /\ req[r].resp = SaveErrorBody
                      /\ req[r].calls[Len(req[r].calls)].err
                           \in (Faults \cup {ResourceExistsException}) \ {NoError}

C16_Witness ==
  \E r \in Reqs :
    /\ Done(r) /\ req[r].kind = "save" /\ req[r].ran
    /\ Len(req[r].calls) = 2
    /\ req[r].calls[1].err = NoError
    /\ req[r].calls[2].op = "put" /\ req[r].calls[2].err = InternalServiceError
    /\ req[r].status = StatusInternalServerError

\* C17: when the context of a retrieve carries no "user_id" or an empty
\* one, RetrieveTokenHandler responds 401 with {"Error": "Could not
\* retrieve token"} and no call of the Retriever reaches the store.
C17_RetrieveWithoutIdentityUnauthorized ==
  \A r \in Reqs :
    (req[r].kind = "get" /\ req[r].ran /\ req[r].ctx \in {Absent, StrVal("")})
      => /\ Done(r)
         /\ req[r].status = StatusUnauthorized
         /\ req[r].resp = RetrieveErrorBody
         /\ req[r].calls = <<>>

C17_Witness ==
  \E r \in Reqs :
    /\ Done(r) /\ req[r].kind = "get" /\ req[r].ran
    /\ req[r].ctx = StrVal("") /\ req[r].status = StatusUnauthorized
    /\ \E id \in SecretIDs : store[id] # NoSecret

\* the ways a retrieve for an identified user fails: the resolver's
\* describe returns an error, Get returns an error, the secret's value is
\* no token document, or the document has an empty access token
ResolveFailed(q) == Len(q.calls) >= 1 /\ q.calls[1].err # NoError
GetFailed(q) == Len(q.calls) = 2 /\ q.calls[2].err # NoError
StoredValueUnusable(q) ==
  /\ Len(q.calls) = 2 /\ q.calls[2].err = NoError
  /\ (q.calls[2].value.json # "token" \/ q.calls[2].value.access_token = "")

\* C18: a retrieve whose resolve fails (the secret not being found
\* included, and then Get is not called), whose Get fails, or whose stored
\* value is not token JSON or has an empty access token, responds 500 with
\* {"Error": "Could not retrieve token"}, the same for every case.
C18_RetrieveFailuresGeneric ==
  \A r \in Reqs :
    (/\ Done(r) /\ req[r].kind = "get" /\ req[r].ran
     /\ (ResolveFailed(req[r]) \/ GetFailed(req[r]) \/ StoredValueUnusable(req[r])))
      => /\ req[r].status = StatusInternalServerError
         /\ req[r].resp = RetrieveErrorBody
         /\ ResolveFailed(req[r])
              => (Len(req[r].calls) = 1 /\ req[r].calls[1].op = "describe")

C18_Witness ==
  \E r \in Reqs :
    /\ Done(r) /\ req[r].kind = "get" /\ req[r].ran
    /\ Len(req[r].calls) = 2 /\ req[r].calls[2].err = NoError
    /\ req[r].calls[2].value = EmptyAccessJSON
    /\ req[r].status = StatusInternalServerError

\* C19: GetPublicKey is called once, by NewJWTParser while main runs, so a
\* serving process has fetched the key exactly once; no step of a serving
\* process fetches it again or changes the verifier's key or signing method.
C19_KeyFetchedOnceVerifierFixed ==
  [][/\ boot'.phase = "serving" => boot'.fetches = 1
     /\ boot'.fetches # boot.fetches => boot.phase = "start"
     /\ boot.phase = "serving"
          => /\ parser'.pubKey = parser.pubKey
             /\ parser'.signingMethod = parser.signingMethod
             /\ parser' = parser]_vars

C19_Witness ==
  /\ boot = Serving(1)
  /\ parser = NewJWTParser
  /\ \E r \in Reqs : Done(r) /\ req[r].parsed.called /\ req[r].parsed.keyHanded
                     /\ req[r].status = StatusOK

\* C20: a process whose verifier could not be constructed never serves:
\* the server is started, and a request taken, only with a verifier.
C20_NeverServesWithoutVerifier ==
  /\ boot.phase = "serving" => parser # NilParser
  /\ \A r \in Reqs : Started(r) => parser # NilParser

\* a store call that failed; the resolver's not-found answer to a save is
\* not a failure, it selects Create
CallFailed(q, i) ==
  /\ q.calls[i].err # NoError
  /\ ~(q.kind = "save" /\ i = 1 /\ q.calls[i].err = ResourceNotFoundException)

\* C21: no retries.  Within one request the verifier is called at most
\* once and each store operation at most once: a save issues describe and
\* then one of put and create, a retrieve describe and then get.  A call
\* that failed is the last call of its request, and the request ends with
\* an error response.
C21_NoRetries ==
  \A r \in Reqs :
    LET q == req[r]
    IN  /\ q.parseCalls <= 1
        /\ Len(q.calls) <= 2
        /\ Len(q.calls) >= 1 => q.calls[1].op = "describe"
        /\ Len(q.calls) = 2
             => q.calls[2].op \in (IF q.kind = "save" THEN {"put", "create"} ELSE {"get"})
        /\ (q.parseCalls = 1 /\ q.parsed.err)
             => (Done(r) /\ q.calls = <<>> /\ q.status = StatusUnauthorized)
        /\ \A i \in DOMAIN q.calls :
             CallFailed(q, i)
               => /\ i = Len(q.calls)
                  /\ Done(r)
                  /\ q.status = StatusInternalServerError

C21_Witness ==
  \E r \in Reqs :
    /\ Done(r) /\ req[r].kind = "save" /\ req[r].parseCalls = 1
    /\ Len(req[r].calls) = 1 /\ req[r].calls[1].err = InternalServiceError
    /\ req[r].status = StatusInternalServerError

\* an error that wraps the service's ResourceNotFoundException somewhere
WrapsResourceNotFound(err) ==
  \E i \in DOMAIN err : err[i] = "ResourceNotFoundException"

\* C22: the step of a save in which the resolver's describe returns an
\* error other than not-found ends the request with that error (500),
\* issues neither Create nor Put and leaves the store as it was; the save
\* goes on to Create exactly when the error wraps ResourceNotFoundException,
\* which is exactly when IsErrorResourceNotFound holds of it.
C22_ResolveErrorStopsSave ==
  [][\A r \in Reqs :
       (/\ req[r].pc = "handler" /\ req[r].kind = "save"
        /\ Len(req'[r].calls) = 1)
         => LET err == req'[r].calls[1].err
            IN  /\ IsErrorResourceNotFound(err) <=> WrapsResourceNotFound(err)
                /\ req'[r].pc = "create" <=> WrapsResourceNotFound(err)
                /\ (err # NoError /\ ~WrapsResourceNotFound(err))
                     => /\ req'[r].pc = "done"
                        /\ req'[r].status = StatusInternalServerError
                        /\ req'[r].resp = SaveErrorBody
                        /\ store' = store]_vars

C22_Witness ==
  \E r \in Reqs :
    /\ Done(r) /\ req[r].kind = "save"
    /\ Len(req[r].calls) = 1 /\ req[r].calls[1].op = "describe"
    /\ req[r].calls[1].err = RequestCanceled
    /\ req[r].status = StatusInternalServerError

\* the user a request in slot r addresses
ConcUserOf(r) == IF req[r].kind = "save" THEN req[r].body.user_id ELSE req[r].ctx.v

\* C23: the resolver returns the identifier it computed whether its
\* describe succeeds or fails: every store call of a request, the Create
\* after a failed describe included, carries a non-empty identifier, and
\* two requests for the same user, save or retrieve, carry the same one, so
\* that a secret created for a user is the one found for that user later.
C23_ResolverReturnsIdentifierAlways ==
  /\ \A r \in ConcReqs :
       \A i \in DOMAIN req[r].calls :
         /\ req[r].calls[i].id # ""
         /\ req[r].calls[i].id = req[r].secretID
         /\ (i = 2 /\ req[r].calls[i].op = "create" /\ req[r].calls[i].err = NoError)
              => store[req[r].calls[i].id] # NoSecret
  /\ \A r1, r2 \in ConcReqs :
       (req[r1].calls # <<>> /\ req[r2].calls # <<>> /\ ConcUserOf(r1) = ConcUserOf(r2))
         => req[r1].calls[1].id = req[r2].calls[1].id

C23_Witness ==
  \E r1, r2 \in ConcReqs :
    /\ r1 # r2
    /\ Done(r1) /\ req[r1].kind = "save" /\ Len(req[r1].calls) = 2
    /\ req[r1].calls[1].err = ResourceNotFoundException
    /\ req[r1].calls[2].op = "create" /\ req[r1].calls[2].err = NoError
    /\ Done(r2) /\ req[r2].kind = "get" /\ Len(req[r2].calls) = 2
    /\ req[r2].calls[1].err = NoError
    /\ req[r2].calls[2].value = req[r1].tokenJSON
    /\ req[r2].status = StatusOK

\* the operations named in the call log of a request
OpsOf(q) == {q.calls[i].op : i \in DOMAIN q.calls}

\* C24: a step of a retrieve request issues only describe and get and
\* leaves every secret as it was; a step of a save request issues only
\* describe, put and create and changes no secret but the one whose
\* identifier the request resolved.
C24_RetrieveReadsSaveWrites ==
  [][\A r \in Reqs :
       (req[r].pc \in {"handler", "create", "put", "get"} /\ req'[r] # req[r])
         => /\ req'[r].kind = req[r].kind
            /\ req[r].kind = "get"
                 => /\ OpsOf(req'[r]) \subseteq {"describe", "get"}
                    /\ store' = store
            /\ req[r].kind = "save"
                 => /\ OpsOf(req'[r]) \subseteq {"describe", "put", "create"}
                    /\ \A id \in SecretIDs :
                         id # req'[r].secretID => store'[id] = store[id]]_vars

C24_Witness ==
  \E r \in Reqs :
    /\ Done(r) /\ req[r].kind = "save" /\ req[r].status = StatusOK
    /\ req[r].calls[2].op = "put"
    /\ \E id \in SecretIDs : id # req[r].secretID /\ store[id] = InvalidJSON

\* C25: the user whose secret a save request resolves, creates or
\* overwrites is the identity the gate stored in the context.
C25_SaveOnlyOwnSecret ==
  \A r \in Reqs :
    (req[r].kind = "save" /\ req[r].ran /\ req[r].calls # <<>>)
      => /\ req[r].ctx = StrVal(req[r].body.user_id)
         /\ \A i \in DOMAIN req[r].calls :
              req[r].calls[i].id = SecretIDOf(SaverRootDomain, TokenDomain, req[r].ctx.v)

\* C26: whenever the gate lets a request through, the value stored under
\* "user_id" is a non-empty string, so that the handler's assertion
\* userID.(string) does not fail and the request is not ended by a panic.
C26_PassedIdentityIsString ==
  \A r \in Reqs :
    HandlerReached(req[r])
      => /\ req[r].ctx.t = "string"
         /\ req[r].ctx.v # ""
         /\ ~req[r].aborted

\* a step in which the save in slot r answers 200
SaveAnswersOK(r) ==
  /\ req[r].kind = "save" /\ req[r].pc \in {"put", "create"}
  /\ req'[r].pc = "done" /\ req'[r].status = StatusOK

\* C27: with saves for one user interleaved in any way, a save that
\* answers 200 has written its token in that step, and a secret changes
\* only by the write of a save that answers 200 in that step: the store
\* holds tokens of saves that answered 200 and never the token of a save
\* that answered with an error.
C27_StoreHoldsOnlyAcknowledgedWrites ==
  [][/\ \A r \in ConcReqs :
          SaveAnswersOK(r) => store'[req[r].secretID] = req[r].tokenJSON
     /\ \A id \in SecretIDs :
          store'[id] # store[id]
            => \E r \in ConcReqs :
                 /\ SaveAnswersOK(r)
                 /\ req[r].secretID = id
                 /\ store'[id] = req[r].tokenJSON]_vars

\* two saves for one user raced: one created the secret and answered 200,
\* the other failed, and the store holds the token of the first
C27_Witness ==
  \E r1, r2 \in ConcReqs :
    /\ Done(r1) /\ Done(r2)
    /\ req[r1].kind = "save" /\ req[r2].kind = "save"
    /\ req[r1].secretID = req[r2].secretID
    /\ req[r1].tokenJSON # req[r2].tokenJSON
    /\ req[r1].status = StatusOK
    /\ req[r2].status = StatusInternalServerError /\ Len(req[r2].calls) = 2
    /\ store[req[r1].secretID] = req[r1].tokenJSON

\* C28: a save with a complete body that passed the gate and whose store
\* calls met no fault of the store answers 200, whatever other save runs
\* at the same time.
C28_ConcurrentSavesAllSucceed ==
  \A r \in ConcReqs :
    (/\ Done(r) /\ req[r].kind = "save" /\ req[r].ran
     /\ ~LacksRequiredField(req[r].body)
     /\ ~req[r].fault)
      => req[r].status = StatusOK

\* the secret of user u as the saver and as the retriever name it
SaverSecretOf(u) == SecretIDOf(SaverRootDomain, TokenDomain, u)
RetrieverSecretOf(u) == SecretIDOf(RetrieverEnv.SmsRootDomain, TokenDomain, u)

\* a step in which the retrieve in slot r answers 200
RetrieveAnswersOK(r) ==
  /\ req[r].kind = "get" /\ req[r].pc = "get"
  /\ req'[r].pc = "done" /\ req'[r].status = StatusOK

C30_AESRoundTrip ==
  /\ aes.pc = "round trip"
       => (~aes.err /\ aes.out = aes.plain)
  /\ (aes.pc = "decrypted"
      /\ (DecodeString(aes.cipher).err \/ Len(DecodeString(aes.cipher).bytes) < BlockSize))
       => (aes.err /\ aes.out = <<>>)

====
